---- MODULE Spec2Model ----
(***************************************************************************)
(* Model of src/utils/reloads.py: the on-the-fly module reload mechanism   *)
(* (reload_modules, reload_scripts, reload_commands, cemit_info).          *)
(*                                                                         *)
(* Python strings are modelled as sequences of one-character strings, so   *)
(* that str.startswith is a genuine (character-level) prefix test.         *)
(***************************************************************************)
EXTENDS Integers, Sequences, FiniteSets, TLC

\* ------------------------------------------------------------------------
\* Bounds of the model
\* ------------------------------------------------------------------------
\* longest list reimport.modified() hands to the classification (SpecClassify)
ClassifyMaxModified ==
    3
\* largest script table scanned by the classification (SpecClassify)
ClassifyMaxScripts ==
    2
\* most modules modified on disk and not yet reloaded (Spec)
MaxStale ==
    2
\* largest script table at start-up (Spec)
MaxScripts ==
    1
\* most calls of the three entry points in one run (Spec)
MaxCalls ==
    2

\* ------------------------------------------------------------------------
\* Strings of the program (reload_modules, lines 37-38)
\* ------------------------------------------------------------------------
\* "src."
dir_src ==
    <<"s", "r", "c", ".">>

\* "src.commands.default."
dir_default ==
    <<"s", "r", "c", ".", "c", "o", "m", "m", "a", "n", "d", "s", ".", "d", "e", "f", "a", "u", "l", "t", ".">>

\* protected_dirs = ('src.',)
protected_dirs ==
    {dir_src}
\* except_dirs = ('src.commands.default.',)
except_dirs ==
    {dir_default}

\* ------------------------------------------------------------------------
\* Module names and typeclass paths the environment may present
\* ------------------------------------------------------------------------
\* "src.server"
mod_src_server ==
    <<"s", "r", "c", ".", "s", "e", "r", "v", "e", "r">>

\* "src.commands.default.look"
mod_default_look ==
    <<"s", "r", "c", ".", "c", "o", "m", "m", "a", "n", "d", "s", ".", "d", "e", "f", "a", "u", "l", "t", ".", "l", "o", "o", "k">>

\* "src.commands.cmdset"
mod_cmdset ==
    <<"s", "r", "c", ".", "c", "o", "m", "m", "a", "n", "d", "s", ".", "c", "m", "d", "s", "e", "t">>

\* "srcs"
mod_srcs ==
    <<"s", "r", "c", "s">>

\* "game.scripts"
mod_game_scripts ==
    <<"g", "a", "m", "e", ".", "s", "c", "r", "i", "p", "t", "s">>

\* "game"
mod_game ==
    <<"g", "a", "m", "e">>


\* "game.scripts.Timer"
tp_timer ==
    <<"g", "a", "m", "e", ".", "s", "c", "r", "i", "p", "t", "s", ".", "T", "i", "m", "e", "r">>

\* "src.commands.default.look.Tick"
tp_tick ==
    <<"s", "r", "c", ".", "c", "o", "m", "m", "a", "n", "d", "s", ".", "d", "e", "f", "a", "u", "l", "t", ".", "l", "o", "o", "k", ".", "T", "i", "c", "k">>

\* "src.server.Beat"
tp_beat ==
    <<"s", "r", "c", ".", "s", "e", "r", "v", "e", "r", ".", "B", "e", "a", "t">>

\* the names of the loaded modules (keys of sys.modules)
Modules ==
    {mod_src_server, mod_default_look, mod_cmdset, mod_srcs,
     mod_game_scripts, mod_game}
\* values of ScriptDB.typeclass_path; the empty string is an unset path
TypeclassPaths ==
    {tp_timer, tp_tick, tp_beat, <<>>}
\* values of ScriptDB.interval: -1 is "no timer", 0 and above is a timer
Intervals ==
    {-1, 0, 5}
\* the rows the script table may hold (SpecClassify): the two fields the
\* scan of lines 45-48 reads
ScriptPool ==
    [interval : Intervals, typeclass_path : TypeclassPaths]
\* the modules edited while the server runs (Spec): one protected, one
\* under the exception prefix (it backs tp_tick), one that backs tp_timer
EditedModules ==
    {mod_src_server, mod_default_look, mod_game_scripts}
\* the script rows present when the server starts (Spec), with their key,
\* the object they are on and their persistence flag
StartScripts ==
    {[key |-> "timer", obj |-> "o1", interval |-> 5,
      typeclass_path |-> tp_timer, persistent |-> TRUE],
     [key |-> "once", obj |-> "o1", interval |-> -1,
      typeclass_path |-> tp_timer, persistent |-> FALSE],
     [key |-> "tick", obj |-> "p1", interval |-> 0,
      typeclass_path |-> tp_tick, persistent |-> TRUE]}

\* ------------------------------------------------------------------------
\* Pure helpers
\* ------------------------------------------------------------------------
\* str.startswith(prefix)
startswith(s, prefix) ==
    /\ Len(prefix) <= Len(s)
    /\ SubSeq(s, 1, Len(prefix)) = prefix

\* x in lst, for a Python list
InList(x, lst) ==
    \E i \in DOMAIN lst : lst[i] = x

\* set(lst)
ToSet(lst) ==
    {lst[i] : i \in DOMAIN lst}

\* all lists of at most n elements of S
ListsUpTo(S, n) ==
    UNION {[1..k -> S] : k \in 0..n}

\* all subsets of S of at most n elements
SubsetsUpTo(S, n) ==
    {T \in SUBSET S : Cardinality(T) <= n}

\* ------------------------------------------------------------------------
\* The safety classification (reload_modules, lines 45-56 and 69-73)
\* ------------------------------------------------------------------------
\* lines 45-49 with the timer test written "interval > 0"
UnsafeModules_positive(scriptobjs) ==
    {scriptobj.typeclass_path :
        scriptobj \in {s \in scriptobjs :
                          s.interval > 0 /\ s.typeclass_path # <<>>}}

\* lines 45-49: typeclass paths of the scripts with a timer component
UnsafeModules(scriptobjs) ==
    {scriptobj.typeclass_path :
        scriptobj \in {s \in scriptobjs :
                          s.interval > -1 /\ s.typeclass_path # <<>>}}

\* lines 51-53 without the test of except_dirs
safe_dir_to_reload_noexcept(pdirs, edirs, modpath) ==
    ~ \E pdir \in pdirs : startswith(modpath, pdir)

\* lines 51-53; the closure's protected_dirs and except_dirs are parameters
safe_dir_to_reload(pdirs, edirs, modpath) ==
    ~ \E pdir \in pdirs :
          /\ startswith(modpath, pdir)
          /\ ~ \E edir \in edirs : startswith(modpath, edir)

\* lines 54-56 with the prefix test the other way round
safe_mod_to_reload_reversed(unsafe, modpath) ==
    ~ \E mpath \in unsafe : startswith(modpath, mpath)

\* lines 54-56; the closure's unsafe_modules is a parameter
safe_mod_to_reload(unsafe, modpath) ==
    ~ \E mpath \in unsafe : startswith(mpath, modpath)

\* line 70
SafeDirModified(pdirs, edirs, mods) ==
    SelectSeq(mods, LAMBDA mod : safe_dir_to_reload(pdirs, edirs, mod))

\* line 71 without its "not"
UnsafeDirModified_in(mods, safe_dir) ==
    SelectSeq(mods, LAMBDA mod : InList(mod, safe_dir))

\* line 71
UnsafeDirModified(mods, safe_dir) ==
    SelectSeq(mods, LAMBDA mod : ~ InList(mod, safe_dir))

\* line 72
SafeModified(unsafe, safe_dir) ==
    SelectSeq(safe_dir, LAMBDA mod : safe_mod_to_reload(unsafe, mod))

\* line 73
UnsafeModModified(safe_dir, safe) ==
    SelectSeq(safe_dir, LAMBDA mod : ~ InList(mod, safe))

\* lines 70-73 together
Classification(pdirs, edirs, unsafe, mods) ==
    LET sd == SafeDirModified(pdirs, edirs, mods)
        sm == SafeModified(unsafe, sd)
    IN  [safe_dir_modified   |-> sd,
         unsafe_dir_modified |-> UnsafeDirModified(mods, sd),
         safe_modified       |-> sm,
         unsafe_mod_modified |-> UnsafeModModified(sd, sm)]

\* ------------------------------------------------------------------------
\* Messages: a Python string is kept as the list message.split('\n') of
\* its lines; a line is its text and the values formatted into it
\* ------------------------------------------------------------------------
Line(text) ==
    [text |-> text, arg |-> <<>>, open |-> FALSE]

\* a line that still holds an unfilled "%s"
FormatLine(text) ==
    [text |-> text, arg |-> <<>>, open |-> TRUE]

\* the empty string: ''.split('\n') is ['']
EmptyString ==
    <<Line("")>>

\* string += fragment, for a fragment that starts with a newline (every
\* fragment of lines 77-87 does): the last line of string stays as it is
Concat(string, fragment) ==
    string \o Tail(fragment)

\* string % value, for a string with one unfilled "%s"
Format(string, value) ==
    [i \in DOMAIN string |->
        IF string[i].open
        THEN [string[i] EXCEPT !.arg = value, !.open = FALSE]
        ELSE string[i]]

\* line 58
msg_cleaning ==
    <<Line("--------------------------------------------------"),
      Line(" Cleaning module caches ...")>>

\* lines 77-78
frag_warning ==
    <<Line(""), Line(" WARNING: Some modules can not be reloaded"),
      Line(" since it would not be safe to do so."), Line("")>>

\* lines 80-81
frag_unsafe_dir ==
    <<Line(""),
      Line("-The following module(s) is/are located in the src/ directory and"),
      Line(" should not be reloaded without a server reboot:"),
      FormatLine("  %s"), Line("")>>

\* lines 84-87
frag_unsafe_mod ==
    <<Line(""),
      Line("-The following modules contains at least one Script class with a timer"),
      Line(" component and which has already spawned instances - these cannot be "),
      Line(" safely cleaned from memory on the fly. Stop all the affected scripts "),
      Line(" or restart the server to safely reload:"),
      FormatLine("  %s"), Line("")>>

\* lines 75-88: the warning about the modules that are not reloaded
WarningString(unsafe_dir, unsafe_mod) ==
    LET s0 == EmptyString
        s1 == IF unsafe_dir # <<>> \/ unsafe_mod # <<>>
              THEN Concat(s0, frag_warning) ELSE s0
        s2 == IF unsafe_dir # <<>>
              THEN Format(Concat(s1, frag_unsafe_dir), unsafe_dir) ELSE s1
        s3 == IF unsafe_mod # <<>>
              THEN Format(Concat(s2, frag_unsafe_mod), unsafe_mod) ELSE s2
    IN  s3

\* line 93
msg_reloading(safe) ==
    Format(<<Line(" Reloading module(s):"), FormatLine("  %s ...")>>, safe)

\* line 95
msg_reloaded ==
    <<Line(" ...all safe modules reloaded.")>>

\* line 97
msg_nothing ==
    <<Line(" Nothing was reloaded.")>>

\* line 106
msg_starting ==
    <<Line(" Starting asynchronous object reset loop ...")>>

\* line 115
msg_finished ==
    <<Line(" ... @reload: Asynchronous reset loop finished.")>>

\* line 116
msg_error(e) ==
    Format(<<FormatLine("%s"),
             Line("reload: Asynchronous reset loop exited with an error. This might be harmless and just due to some modules or scripts not having had time to restart before being called by the reset loop. Wait a moment then reload again to see if the problem persists.")>>,
           <<e>>)

\* line 131
msg_validating ==
    <<Line(" Validating scripts ...")>>

\* lines 137-138
msg_validated(nr_started, nr_stopped) ==
    Format(<<FormatLine(" Started %s script(s). Stopped %s invalid script(s).")>>,
           <<nr_started, nr_stopped>>)

\* line 144
msg_cmdsets ==
    <<Line(" Cleaned cmdset cache."),
      Line("--------------------------------------------------")>>

\* ------------------------------------------------------------------------
\* cemit_info (lines 146-165)
\* ------------------------------------------------------------------------
\* what the look-up of settings.CHANNEL_MUDINFO and the channel can do:
\* "ok" the channel is found and takes the message, "unresolved" the
\* look-up fails or finds nothing, "sendfails" the channel is found and its
\* msg() raises
ChannelStates ==
    {"ok", "unresolved", "sendfails"}

\* the lines of a message, each behind the same tag
Tagged(tag, message) ==
    [i \in DOMAIN message |-> [tag |-> tag, line |-> message[i]]]

\* lines 154-158: infochan is set unless the look-up raised or found nothing
Resolved(status) ==
    status # "unresolved"

\* line 152 left out: the log of the fall-back alone
cemit_info_fallback_only(message, status) ==
    IF Resolved(status)
    THEN [logged |-> <<>>,
          sent   |-> IF status = "ok"
                     THEN Tagged("[MudInfo]: ", message) ELSE <<>>,
          raised |-> status = "sendfails"]
    ELSE [logged |-> Tagged("[NO MUDINFO CHANNEL]: ", message),
          sent   |-> <<>>,
          raised |-> FALSE]

\* lines 152-165: what one call writes to the log and sends to the channel,
\* and whether it raises
cemit_info(message, status) ==
    LET first == Tagged("", message)
    IN  IF Resolved(status)
        THEN [logged |-> first,
              sent   |-> IF status = "ok"
                         THEN Tagged("[MudInfo]: ", message) ELSE <<>>,
              raised |-> status = "sendfails"]
        ELSE [logged |-> first \o Tagged("[NO MUDINFO CHANNEL]: ", message),
              sent   |-> <<>>,
              raised |-> FALSE]

\* ------------------------------------------------------------------------
\* State
\* ------------------------------------------------------------------------
VARIABLES
    scripts,              \* ScriptDB: the set of script rows
    pc,                   \* position of the control flow
    unsafe_modules,       \* local of reload_modules (line 49)
    modified,             \* local of reload_modules (line 69)
    safe_dir_modified,    \* local of reload_modules (line 70)
    unsafe_dir_modified,  \* local of reload_modules (line 71)
    safe_modified,        \* local of reload_modules (line 72)
    unsafe_mod_modified,  \* local of reload_modules (line 73)
    string,               \* local of reload_modules (lines 75-88)
    stale,                \* modules changed on disk since they were loaded
    cache,                \* the code-derived caches: "filled" or "cleared"
    entry,                \* the entry point called last
    outcome,              \* "none", "active", "returned" or "raised"
    trace,                \* the calls made so far by the entry point
    emitted,              \* the cemit_info call made last: message and channel
    logged,               \* lines the last cemit_info wrote to the log
    sent,                 \* lines the last cemit_info sent to the channel
    sweep,                \* the asynchronous reset loop: its phase
    loop,                 \* the table the reset loop walks and what is left
    resets,               \* the reset() calls the reset loop has completed
    entities,             \* the rows of the tables other than ScriptDB
    stopped,              \* the script rows validate has stopped so far
    call_args,                 \* the arguments of the reload_scripts call
    ncalls                \* entry point calls made so far

locals ==
    <<unsafe_modules, modified, safe_dir_modified, unsafe_dir_modified,
      safe_modified, unsafe_mod_modified, string>>

\* the call of cemit_info made last: its message and what the look-up of
\* the channel did
Emitted(message, status) ==
    [message |-> message, infochan |-> status]

\* no call of cemit_info made yet
NothingEmitted ==
    Emitted(<<>>, "none")

\* what a report writes
report ==
    <<emitted, logged, sent>>

\* the state outside the entry points' frames
\* the asynchronous reset loop
reset_loop ==
    <<sweep, loop, resets>>

\* the database
db ==
    <<scripts, entities, stopped>>

world ==
    <<stale, cache, reset_loop>>

\* the bookkeeping of the calls
calls ==
    <<entry, call_args, outcome, trace, ncalls>>

vars ==
    <<db, pc, locals, report, world, calls>>

CacheNames ==
    {"appcache", "typeclass", "exit", "channel", "cmdset"}

\* lines 109-114: the tables the reset loop walks, in the order it walks them
Tables ==
    <<"ObjectDB", "ScriptDB", "PlayerDB", "HelpEntry", "Msg", "Channel">>

\* line 109 written as lines 110-114 are: o.locks.reset() alone
Handlers_locks_only(table) ==
    <<"locks">>

\* lines 109-114: the handlers the reset loop resets on a row of a table,
\* in the order of the calls
Handlers(table) ==
    IF table = "ObjectDB" THEN <<"cmdset", "locks">> ELSE <<"locks">>

\* the rows of the tables other than ScriptDB when the server starts
StartEntities ==
    {[table |-> "ObjectDB", key |-> "o1", typeclass_path |-> tp_beat],
     [table |-> "PlayerDB", key |-> "p1", typeclass_path |-> tp_beat],
     [table |-> "HelpEntry", key |-> "h1", typeclass_path |-> <<>>],
     [table |-> "Msg", key |-> "m1", typeclass_path |-> <<>>],
     [table |-> "Channel", key |-> "c1", typeclass_path |-> <<>>]}

\* one row of a table, named by its table and its key
Instance(table, key) ==
    [table |-> table, key |-> key]

\* <Model>.objects.all(): the rows a table holds now
Instances(table) ==
    IF table = "ScriptDB"
    THEN {Instance(table, s.key) : s \in scripts}
    ELSE {Instance(table, e.key) : e \in {x \in entities : x.table = table}}

\* the rows of all the tables
Rows ==
    UNION {Instances(Tables[k]) : k \in DOMAIN Tables}

\* the reset() calls lines 109-114 make on one row
ResetsOf(row) ==
    {[row |-> row, handler |-> Handlers(row.table)[i]] :
        i \in DOMAIN Handlers(row.table)}

\* the reset loop is not walking a table
NoLoop ==
    [at |-> 0, todo |-> <<>>]

\* reload_modules and reload_commands take no arguments
NoArgs ==
    [selector |-> "none", init_mode |-> FALSE]

\* the values that do not depend on the drawn inputs
InitRest ==
    /\ unsafe_modules = {}
    /\ safe_dir_modified = <<>>
    /\ unsafe_dir_modified = <<>>
    /\ safe_modified = <<>>
    /\ unsafe_mod_modified = <<>>
    /\ string = EmptyString
    /\ cache = [c \in CacheNames |-> "filled"]
    /\ entry = "none"
    /\ outcome = "none"
    /\ trace = <<>>
    /\ emitted = NothingEmitted
    /\ logged = <<>>
    /\ sent = <<>>
    /\ sweep = "none"
    /\ loop = NoLoop
    /\ resets = {}
    /\ entities = StartEntities
    /\ stopped = {}
    /\ call_args = NoArgs
    /\ ncalls = 0

\* ------------------------------------------------------------------------
\* SpecClassify: the classification applied to arbitrary bounded inputs
\* ------------------------------------------------------------------------
InitClassify ==
    /\ scripts \in SubsetsUpTo(ScriptPool, ClassifyMaxScripts)
    /\ modified \in ListsUpTo(Modules, ClassifyMaxModified)
    /\ pc = "classify"
    /\ stale = ToSet(modified)
    /\ InitRest

\* lines 45-49 and 70-73 on the drawn script table and modified list
Classify ==
    /\ pc = "classify"
    /\ LET unsafe == UnsafeModules(scripts)
           c == Classification(protected_dirs, except_dirs, unsafe, modified)
       IN  /\ unsafe_modules' = unsafe
           /\ safe_dir_modified' = c.safe_dir_modified
           /\ unsafe_dir_modified' = c.unsafe_dir_modified
           /\ safe_modified' = c.safe_modified
           /\ unsafe_mod_modified' = c.unsafe_mod_modified
    /\ pc' = "classified"
    /\ UNCHANGED <<db, modified, string, report, world, calls>>

NextClassify ==
    Classify

SpecClassify ==
    InitClassify /\ [][NextClassify]_vars

\* ------------------------------------------------------------------------
\* Spec: the three entry points, the asynchronous reset loop and the
\* environment (edits on disk, the notification channel, cache use)
\* ------------------------------------------------------------------------
Init ==
    /\ scripts \in SubsetsUpTo(StartScripts, MaxScripts)
    /\ modified = <<>>
    /\ stale = {}
    /\ pc = "idle"
    /\ InitRest

\* one call recorded in the trace
Ev(call, args, ok) ==
    [call |-> call, args |-> args, ok |-> ok]

\* the record of one cemit_info call
Reported(message, r) ==
    Ev("cemit_info", message, ~ r.raised)

\* an exception leaves the entry point
Raise ==
    /\ pc' = "done"
    /\ outcome' = "raised"

\* the entry point returns
Return ==
    /\ pc' = "done"
    /\ outcome' = "returned"

\* the orders in which a set can be iterated
Orderings(S) ==
    {l \in [1..Cardinality(S) -> S] : ToSet(l) = S}

\* --- the environment ---------------------------------------------------
\* a loaded module is changed on disk
Edit(m) ==
    /\ pc = "idle"
    /\ m \notin stale
    /\ Cardinality(stale) < MaxStale
    /\ stale' = stale \cup {m}
    /\ UNCHANGED <<db, pc, locals, report, cache, reset_loop, calls>>

\* the running server fills the caches again from the code now loaded
ServerActivity ==
    /\ pc = "idle"
    /\ \E c \in CacheNames : cache[c] # "filled"
    /\ cache' = [c \in CacheNames |-> "filled"]
    /\ UNCHANGED <<db, pc, locals, report, stale, reset_loop, calls>>

\* --- reload_modules (lines 24-117) -------------------------------------
\* the phases in which no reset loop is in flight: none was started, or the
\* one started last has called at_return or at_err
SweepEnded ==
    {"none", "finished", "errored"}

\* lines 24-66: the script scan, the first report and the AppCache reset;
\* the reload commands are serialized: the model calls an entry point only
\* when the reset loop of the cycle before has ended, so that one reset
\* loop is in flight at a time and no call runs beside it
RM_Begin ==
    /\ pc = "idle"
    /\ ncalls < MaxCalls
    /\ sweep \in SweepEnded
    /\ entry' = "reload_modules"
    /\ call_args' = NoArgs
    /\ ncalls' = ncalls + 1
    /\ unsafe_modules' = UnsafeModules(scripts)
    /\ \E status \in ChannelStates :
       LET r == cemit_info(msg_cleaning, status)
       IN  /\ emitted' = Emitted(msg_cleaning, status)
           /\ logged' = r.logged
           /\ sent' = r.sent
           /\ IF r.raised
              THEN /\ trace' = <<Reported(msg_cleaning, r)>>
                   /\ cache' = cache
                   /\ Raise
              ELSE /\ trace' = <<Reported(msg_cleaning, r),
                                 Ev("appcache", cache["appcache"], TRUE)>>
                   /\ cache' = [cache EXCEPT !["appcache"] = "cleared"]
                   /\ pc' = "L69"
                   /\ outcome' = "active"
    /\ UNCHANGED <<db, modified, safe_dir_modified, unsafe_dir_modified,
                   safe_modified, unsafe_mod_modified, string, stale, reset_loop>>

\* lines 69-90: the modified modules, their classification and the warning
RM_Classify ==
    /\ pc = "L69"
    /\ \E mods \in Orderings(stale) : \E status \in ChannelStates :
        LET c == Classification(protected_dirs, except_dirs,
                                unsafe_modules, mods)
            w == WarningString(c.unsafe_dir_modified, c.unsafe_mod_modified)
            r == cemit_info(w, status)
        IN  /\ modified' = mods
            /\ safe_dir_modified' = c.safe_dir_modified
            /\ unsafe_dir_modified' = c.unsafe_dir_modified
            /\ safe_modified' = c.safe_modified
            /\ unsafe_mod_modified' = c.unsafe_mod_modified
            /\ string' = w
            /\ IF w # EmptyString
               THEN /\ emitted' = Emitted(w, status)
                    /\ logged' = r.logged
                    /\ sent' = r.sent
                    /\ trace' = trace \o <<Ev("modified", mods, TRUE),
                                           Reported(w, r)>>
                    /\ IF r.raised
                       THEN Raise
                       ELSE pc' = "L92" /\ outcome' = outcome
               ELSE /\ trace' = Append(trace, Ev("modified", mods, TRUE))
                    /\ pc' = "L92"
                    /\ UNCHANGED <<report, outcome>>
    /\ UNCHANGED <<db, unsafe_modules, world, entry, call_args, ncalls>>

\* lines 92-93 and 96-97: what the reload is about to do
RM_Announce ==
    /\ pc = "L92"
    /\ \E status \in ChannelStates :
       LET message == IF safe_modified # <<>>
                      THEN msg_reloading(safe_modified) ELSE msg_nothing
           r == cemit_info(message, status)
       IN  /\ emitted' = Emitted(message, status)
           /\ logged' = r.logged
           /\ sent' = r.sent
           /\ trace' = Append(trace, Reported(message, r))
           /\ IF r.raised
              THEN Raise
              ELSE /\ pc' = IF safe_modified # <<>> THEN "L94" ELSE "L100"
                   /\ outcome' = outcome
    /\ UNCHANGED <<db, locals, world, entry, call_args, ncalls>>

\* reimport.reimport(*ids): every unit is reloaded and swapped in, or its
\* reload fails, is logged and leaves the old code of the unit active
reimport(ids, failed) ==
    stale \ (ToSet(ids) \ failed)

\* lines 94-95: the reimport of the safe modules and its report
RM_Reimport ==
    /\ pc = "L94"
    /\ \E failed \in SUBSET ToSet(safe_modified) : \E status \in ChannelStates :
        LET r == cemit_info(msg_reloaded, status)
        IN  /\ stale' = reimport(safe_modified, failed)
            /\ emitted' = Emitted(msg_reloaded, status)
            /\ logged' = r.logged
            /\ sent' = r.sent
            /\ trace' = trace \o
                   <<Ev("reimport", [ids |-> safe_modified, failed |-> failed],
                        failed = {}),
                     Reported(msg_reloaded, r)>>
            /\ IF r.raised
               THEN Raise
               ELSE pc' = "L100" /\ outcome' = outcome
    /\ UNCHANGED <<db, locals, cache, reset_loop, entry, call_args, ncalls>>

\* one step of lines 100-102: the call clears (or refreshes) its cache and
\* control goes on, or the call raises and the exception leaves
\* reload_modules; the trace keeps the state of the cache before the call
CascadeStep(here, name, after, next) ==
    /\ pc = here
    /\ \E ok \in BOOLEAN :
        /\ trace' = Append(trace, Ev(name, cache[name], ok))
        /\ IF ok
           THEN /\ cache' = [cache EXCEPT ![name] = after]
                /\ pc' = next
                /\ outcome' = outcome
           ELSE /\ cache' = cache
                /\ Raise
    /\ UNCHANGED <<db, locals, report, stale, reset_loop, entry, call_args, ncalls>>

\* line 100: typeclassmodels.reset()
RM_Typeclass ==
    CascadeStep("L100", "typeclass", "cleared", "L101")

\* line 101 written before line 100
RM_Exit_early ==
    CascadeStep("L100", "exit", "cleared", "L101")

\* line 101: exithandler.EXITHANDLER.clear()
RM_Exit ==
    CascadeStep("L101", "exit", "cleared", "L102")

\* line 102: channelhandler.CHANNELHANDLER.update()
RM_Channel ==
    CascadeStep("L102", "channel", "refreshed", "L106")

\* line 117 written as a plain call, run_reset_loop(): the loop has run to
\* its end when reload_modules returns
RM_Sweep_sync ==
    /\ pc = "L106"
    /\ \E status \in ChannelStates :
       LET r == cemit_info(msg_starting, status)
       IN  /\ emitted' = Emitted(msg_starting, status)
           /\ logged' = r.logged
           /\ sent' = r.sent
           /\ IF r.raised
              THEN /\ trace' = Append(trace, Reported(msg_starting, r))
                   /\ UNCHANGED reset_loop
                   /\ Raise
              ELSE /\ trace' = trace \o <<Reported(msg_starting, r),
                                          Ev("run_async", <<>>, TRUE)>>
                   /\ sweep' = "succeeded"
                   /\ loop' = [at |-> Len(Tables) + 1, todo |-> <<>>]
                   /\ resets' = UNION {ResetsOf(row) : row \in Rows}
                   /\ Return
    /\ UNCHANGED <<db, locals, stale, cache, entry, call_args, ncalls>>

\* lines 106-117: the report and the hand-over of the reset loop
RM_Sweep ==
    /\ pc = "L106"
    /\ \E status \in ChannelStates :
       LET r == cemit_info(msg_starting, status)
       IN  /\ emitted' = Emitted(msg_starting, status)
           /\ logged' = r.logged
           /\ sent' = r.sent
           /\ IF r.raised
              THEN /\ trace' = Append(trace, Reported(msg_starting, r))
                   /\ UNCHANGED reset_loop
                   /\ Raise
              ELSE /\ trace' = trace \o <<Reported(msg_starting, r),
                                          Ev("run_async", <<>>, TRUE)>>
                   /\ sweep' = "scheduled"
                   /\ loop' = NoLoop
                   /\ resets' = {}
                   /\ Return
    /\ UNCHANGED <<db, locals, stale, cache, entry, call_args, ncalls>>

\* --- reload_scripts (lines 119-139) ------------------------------------
\* the selectors a call of reload_scripts is given: none (every script)
\* or the scripts on one object
Selectors ==
    {"all", "obj:o1"}

\* the scripts a selector names
Selected(table, selector) ==
    IF selector = "obj:o1" THEN {s \in table : s.obj = "o1"} ELSE table

\* lines 119-131: the call with its arguments, and the first report
RS_Begin ==
    /\ pc = "idle"
    /\ ncalls < MaxCalls
    /\ sweep \in SweepEnded
    /\ entry' = "reload_scripts"
    /\ ncalls' = ncalls + 1
    /\ \E selector \in Selectors : \E init_mode \in BOOLEAN :
          call_args' = [selector |-> selector, init_mode |-> init_mode]
    /\ \E status \in ChannelStates :
       LET r == cemit_info(msg_validating, status)
       IN  /\ emitted' = Emitted(msg_validating, status)
           /\ logged' = r.logged
           /\ sent' = r.sent
           /\ trace' = <<Reported(msg_validating, r)>>
           /\ IF r.raised
              THEN Raise
              ELSE pc' = "L132" /\ outcome' = "active"
    /\ UNCHANGED <<db, locals, world>>

\* ScriptDB.objects.validate(scripts, obj, key, dbref, init_mode): in
\* init_mode the selected scripts that are not persistent are discarded and
\* the persistent ones are started; otherwise the selected scripts that
\* should not run (invalid) are stopped and leave the table, and those found
\* idle are started; the answer is the table and the two counts
validate(table, selector, init_mode, invalid, idle) ==
    LET selected == Selected(table, selector)
        volatile == {s \in selected : ~ s.persistent}
    IN  IF init_mode
        THEN [table      |-> table \ volatile,
              stopped    |-> {},
              nr_started |-> Cardinality(selected \ volatile),
              nr_stopped |-> 0]
        ELSE [table      |-> table \ (selected \cap invalid),
              stopped    |-> selected \cap invalid,
              nr_started |-> Cardinality((selected \ invalid) \cap idle),
              nr_stopped |-> Cardinality(selected \cap invalid)]

\* line 132 written without init_mode: validate runs in its default mode
RS_Validate_default_mode ==
    /\ pc = "L132"
    /\ \E invalid \in SUBSET scripts :
       \E idle \in SUBSET (scripts \ invalid) :
       \E status \in ChannelStates :
        LET v == validate(scripts, call_args.selector, FALSE, invalid, idle)
            message == msg_validated(v.nr_started, v.nr_stopped)
            r == cemit_info(message, status)
        IN  /\ scripts' = v.table
            /\ stopped' = stopped \cup v.stopped
            /\ emitted' = Emitted(message, status)
            /\ logged' = r.logged
            /\ sent' = r.sent
            /\ trace' = trace \o
                   <<Ev("validate",
                        [selector   |-> call_args.selector,
                         init_mode  |-> FALSE,
                         nr_started |-> v.nr_started,
                         nr_stopped |-> v.nr_stopped], TRUE),
                     Reported(message, r)>>
            /\ IF r.raised THEN Raise ELSE Return
    /\ UNCHANGED <<entities, locals, world, entry, call_args, ncalls>>

\* lines 132-139: the validation and the report of its counts
RS_Validate ==
    /\ pc = "L132"
    /\ \E invalid \in SUBSET scripts :
       \E idle \in SUBSET (scripts \ invalid) :
       \E status \in ChannelStates :
        LET v == validate(scripts, call_args.selector, call_args.init_mode,
                          invalid, idle)
            message == msg_validated(v.nr_started, v.nr_stopped)
            r == cemit_info(message, status)
        IN  /\ scripts' = v.table
            /\ stopped' = stopped \cup v.stopped
            /\ emitted' = Emitted(message, status)
            /\ logged' = r.logged
            /\ sent' = r.sent
            /\ trace' = trace \o
                   <<Ev("validate",
                        [selector   |-> call_args.selector,
                         init_mode  |-> call_args.init_mode,
                         nr_started |-> v.nr_started,
                         nr_stopped |-> v.nr_stopped], TRUE),
                     Reported(message, r)>>
            /\ IF r.raised THEN Raise ELSE Return
    /\ UNCHANGED <<entities, locals, world, entry, call_args, ncalls>>

\* --- reload_commands (lines 141-144) -----------------------------------
reload_commands ==
    /\ pc = "idle"
    /\ ncalls < MaxCalls
    /\ sweep \in SweepEnded
    /\ entry' = "reload_commands"
    /\ call_args' = NoArgs
    /\ ncalls' = ncalls + 1
    /\ cache' = [cache EXCEPT !["cmdset"] = "cleared"]
    /\ \E status \in ChannelStates :
       LET r == cemit_info(msg_cmdsets, status)
       IN  /\ emitted' = Emitted(msg_cmdsets, status)
           /\ logged' = r.logged
           /\ sent' = r.sent
           /\ trace' = <<Ev("cmdset", cache["cmdset"], TRUE),
                         Reported(msg_cmdsets, r)>>
           /\ IF r.raised THEN Raise ELSE Return
    /\ UNCHANGED <<db, locals, stale, reset_loop>>

\* --- the end of a call ------------------------------------------------
\* the frame of the finished call is dropped: its locals are gone, and the
\* record of the call starts afresh
Collect ==
    /\ pc = "done"
    /\ pc' = "idle"
    /\ unsafe_modules' = {}
    /\ modified' = <<>>
    /\ safe_dir_modified' = <<>>
    /\ unsafe_dir_modified' = <<>>
    /\ safe_modified' = <<>>
    /\ unsafe_mod_modified' = <<>>
    /\ string' = EmptyString
    /\ entry' = "none"
    /\ call_args' = NoArgs
    /\ outcome' = "none"
    /\ trace' = <<>>
    /\ emitted' = NothingEmitted
    /\ logged' = <<>>
    /\ sent' = <<>>
    /\ UNCHANGED <<db, world, ncalls>>

\* --- the asynchronous reset loop (lines 107-117) -----------------------
\* the first table from index k on that holds a row, with its rows in the
\* order the query gives them; past the last table the loop has no table
\* left
RECURSIVE Walks(_)
Walks(k) ==
    IF k > Len(Tables)
    THEN {[at |-> k, todo |-> <<>>]}
    ELSE IF Instances(Tables[k]) = {}
         THEN Walks(k + 1)
         ELSE {[at |-> k, todo |-> l] : l \in Orderings(Instances(Tables[k]))}

\* the reset() calls made on one row before the n-th handler
ResetsBefore(row, n) ==
    {[row |-> row, handler |-> Handlers(row.table)[i]] : i \in 1..(n - 1)}

\* utils.run_async starts run_reset_loop off the caller's flow of control
SweepStart ==
    /\ sweep = "scheduled"
    /\ sweep' = "running"
    /\ loop' \in Walks(1)
    /\ resets' = resets
    /\ UNCHANGED <<db, pc, locals, report, stale, cache, calls>>

\* lines 109-114 with a reset() that saves the row under the typeclass path
\* of the code now loaded
SweepReset_saving ==
    /\ sweep = "running"
    /\ loop.todo # <<>>
    /\ LET row == Head(loop.todo)
           n == Len(Handlers(row.table))
       IN  /\ resets' = resets \cup ResetsBefore(row, n + 1)
           /\ entities' = {IF e.key = row.key
                           THEN [e EXCEPT !.typeclass_path = tp_timer]
                           ELSE e : e \in entities}
           /\ IF Tail(loop.todo) # <<>>
              THEN loop' = [loop EXCEPT !.todo = Tail(loop.todo)]
              ELSE loop' \in Walks(loop.at + 1)
    /\ sweep' = IF loop'.todo = <<>> THEN "succeeded" ELSE "running"
    /\ UNCHANGED <<scripts, stopped, pc, locals, report, stale, cache, calls>>

\* lines 109-114, one row: its handlers are reset in turn; after the last
\* row of a table the next table is queried, and after the last row of the
\* last table run_reset_loop returns
SweepReset ==
    /\ sweep = "running"
    /\ loop.todo # <<>>
    /\ LET row == Head(loop.todo)
           n == Len(Handlers(row.table))
       IN  /\ resets' = resets \cup ResetsBefore(row, n + 1)
           /\ IF Tail(loop.todo) # <<>>
              THEN loop' = [loop EXCEPT !.todo = Tail(loop.todo)]
              ELSE loop' \in Walks(loop.at + 1)
    /\ sweep' = IF loop'.todo = <<>> THEN "succeeded" ELSE "running"
    /\ UNCHANGED <<db, pc, locals, report, stale, cache, calls>>

\* lines 109-114, one row: one of its reset() calls raises and ends
\* run_reset_loop; the record of a loop that has ended so is dropped
SweepRaise ==
    /\ sweep = "running"
    /\ loop.todo # <<>>
    /\ sweep' = "failed"
    /\ loop' = NoLoop
    /\ resets' = {}
    /\ UNCHANGED <<db, pc, locals, report, stale, cache, calls>>

\* the tables on whose rows a reset() call is let hang
HangTables ==
    {"ObjectDB", "ScriptDB"}

\* lines 109-114, one row: one of its reset() calls never returns
SweepHang ==
    /\ sweep = "running"
    /\ loop.todo # <<>>
    /\ Head(loop.todo).table \in HangTables
    /\ LET row == Head(loop.todo)
       IN  \E n \in DOMAIN Handlers(row.table) :
              resets' = resets \cup ResetsBefore(row, n)
    /\ sweep' = "hung"
    /\ loop' = loop
    /\ UNCHANGED <<db, pc, locals, report, stale, cache, calls>>

\* at_return given to run_async as the errback
at_return_errback ==
    /\ sweep = "failed"
    /\ \E status \in ChannelStates :
       LET r == cemit_info(msg_finished, status)
       IN  /\ emitted' = Emitted(msg_finished, status)
           /\ logged' = r.logged
           /\ sent' = r.sent
    /\ sweep' = "finished"
    /\ UNCHANGED <<loop, resets>>
    /\ UNCHANGED <<db, pc, locals, stale, cache, calls>>

\* line 115: at_return
at_return ==
    /\ sweep = "succeeded"
    /\ \E status \in ChannelStates :
       LET r == cemit_info(msg_finished, status)
       IN  /\ emitted' = Emitted(msg_finished, status)
           /\ logged' = r.logged
           /\ sent' = r.sent
    /\ sweep' = "finished"
    /\ UNCHANGED <<loop, resets>>
    /\ UNCHANGED <<db, pc, locals, stale, cache, calls>>

\* line 116: at_err
at_err ==
    /\ sweep = "failed"
    /\ \E status \in ChannelStates :
       LET r == cemit_info(msg_error("error"), status)
       IN  /\ emitted' = Emitted(msg_error("error"), status)
           /\ logged' = r.logged
           /\ sent' = r.sent
    /\ sweep' = "errored"
    /\ UNCHANGED <<loop, resets>>
    /\ UNCHANGED <<db, pc, locals, stale, cache, calls>>

Next ==
    \/ \E m \in EditedModules : Edit(m)
    \/ ServerActivity
    \/ RM_Begin
    \/ RM_Classify
    \/ RM_Announce
    \/ RM_Reimport
    \/ RM_Typeclass
    \/ RM_Exit
    \/ RM_Channel
    \/ RM_Sweep
    \/ RS_Begin
    \/ RS_Validate
    \/ reload_commands
    \/ Collect
    \/ SweepStart
    \/ SweepReset
    \/ SweepRaise
    \/ SweepHang
    \/ at_return
    \/ at_err

Spec ==
    Init /\ [][Next]_vars

\* FairSpec: the thread that run_async hands the reset loop to is
\* scheduled, a reset() call that does not hang comes to an end, and the
\* callback of a loop that has ended is called
Fairness ==
    /\ WF_vars(SweepStart)
    /\ WF_vars(SweepReset)
    /\ WF_vars(at_return)
    /\ WF_vars(at_err)

\* the cycles of reload_modules and their reset loops
NextCycles ==
    \/ \E m \in EditedModules : Edit(m)
    \/ RM_Begin
    \/ RM_Classify
    \/ RM_Announce
    \/ RM_Reimport
    \/ RM_Typeclass
    \/ RM_Exit
    \/ RM_Channel
    \/ RM_Sweep
    \/ Collect
    \/ SweepStart
    \/ SweepReset
    \/ SweepRaise
    \/ SweepHang
    \/ at_return
    \/ at_err

FairSpec ==
    Init /\ [][NextCycles]_vars /\ Fairness

\* ------------------------------------------------------------------------
\* Vocabulary of the classification claims
\* ------------------------------------------------------------------------
\* the detected-modified set and the three result sets
DetectedSet ==
    ToSet(modified)

SafeSet ==
    ToSet(safe_modified)

UnsafeDirSet ==
    ToSet(unsafe_dir_modified)

UnsafeModSet ==
    ToSet(unsafe_mod_modified)

\* rule 1 and 2: under a protected prefix and under no exception prefix
UnderProtected(m) ==
    \E pdir \in protected_dirs : startswith(m, pdir)

UnderException(m) ==
    \E edir \in except_dirs : startswith(m, edir)

\* rule 3: m is a prefix of the typeclass path of a script with a timer
BacksTimerScript(m) ==
    \E s \in scripts : s.interval > -1 /\ startswith(s.typeclass_path, m)

Classified ==
    pc = "classified"

\* ------------------------------------------------------------------------
\* C1: the three result sets safe-modified, unsafe-dir-modified and
\* unsafe-mod-modified are pairwise disjoint and their union is exactly the
\* detected-modified set, for every modified list (repeated identifiers
\* included) and every script table.
\* ------------------------------------------------------------------------
C1_Partition ==
    Classified =>
        /\ SafeSet \cap UnsafeDirSet = {}
        /\ SafeSet \cap UnsafeModSet = {}
        /\ UnsafeDirSet \cap UnsafeModSet = {}
        /\ SafeSet \cup UnsafeDirSet \cup UnsafeModSet = DetectedSet

\* a classification in which all three result sets are non-empty
C1_Witness ==
    /\ Classified
    /\ SafeSet # {}
    /\ UnsafeDirSet # {}
    /\ UnsafeModSet # {}

\* ------------------------------------------------------------------------
\* The end-to-end scenario of the classification
\* ------------------------------------------------------------------------
\* "game.commands.default.look"
ex_look ==
    <<"g", "a", "m", "e", ".", "c", "o", "m", "m", "a", "n", "d", "s", ".", "d", "e", "f", "a", "u", "l", "t", ".", "l", "o", "o", "k">>
\* "game.objects.monster"
ex_monster ==
    <<"g", "a", "m", "e", ".", "o", "b", "j", "e", "c", "t", "s", ".", "m", "o", "n", "s", "t", "e", "r">>
\* "core.engine.scheduler"
ex_scheduler ==
    <<"c", "o", "r", "e", ".", "e", "n", "g", "i", "n", "e", ".", "s", "c", "h", "e", "d", "u", "l", "e", "r">>
\* "core."
ex_core ==
    <<"c", "o", "r", "e", ".">>

\* the scenario's script tables: one timer script backed by ex_monster
ExampleScripts ==
    {{[interval |-> i, typeclass_path |-> ex_monster]} :
        i \in {n \in Intervals : n > -1}}

\* the scenario's modified set, in every order of iteration
ExampleModified ==
    {l \in [1..3 -> {ex_look, ex_monster, ex_scheduler}] :
        ToSet(l) = {ex_look, ex_monster, ex_scheduler}}

\* the scenario classifies as stated
ExampleHolds ==
    \A scr \in ExampleScripts : \A l \in ExampleModified :
        LET c == Classification({ex_core}, {}, UnsafeModules(scr), l)
        IN  /\ ToSet(c.safe_modified) = {ex_look}
            /\ ToSet(c.unsafe_dir_modified) = {ex_scheduler}
            /\ ToSet(c.unsafe_mod_modified) = {ex_monster}

\* ------------------------------------------------------------------------
\* C3: first match wins, for every modified identifier: unsafe-dir-modified
\* iff under a protected prefix and under no exception prefix; otherwise
\* unsafe-mod-modified iff a prefix of the typeclass path of a script with
\* interval > -1; otherwise safe-modified.  The end-to-end scenario of the
\* specification (protected prefix "core.", no exception, a timer script
\* backed by game.objects.monster) classifies as stated.
\* ------------------------------------------------------------------------
C3_FirstMatch ==
    Classified =>
        /\ \A m \in DetectedSet :
              /\ m \in UnsafeDirSet <=> (UnderProtected(m) /\ ~ UnderException(m))
              /\ m \in UnsafeModSet <=>
                     /\ ~ (UnderProtected(m) /\ ~ UnderException(m))
                     /\ BacksTimerScript(m)
              /\ m \in SafeSet <=>
                     /\ ~ (UnderProtected(m) /\ ~ UnderException(m))
                     /\ ~ BacksTimerScript(m)
        /\ ExampleHolds

\* a protected unit that also backs a timer script is unsafe-dir-modified
\* (rule 1 matched first), next to a unit held back by rule 3 alone
C3_Witness ==
    /\ Classified
    /\ \E m \in UnsafeDirSet : BacksTimerScript(m)
    /\ \E m \in UnsafeModSet : ~ UnderProtected(m)

\* ------------------------------------------------------------------------
\* C4 (as stated): a modified unit under an exception prefix is always
\* classified safe-modified, whatever the state of the script table.
\* ------------------------------------------------------------------------
C4_AlwaysSafe ==
    Classified =>
        \A m \in DetectedSet : UnderException(m) => m \in SafeSet

\* ------------------------------------------------------------------------
\* C4 (amended): a modified unit under an exception prefix nested inside a
\* protected prefix is never unsafe-dir-modified, and it is safe-modified
\* exactly when it is not a prefix of the typeclass path of a script with
\* interval > -1.
\* ------------------------------------------------------------------------
C4_SafeUnlessTimer ==
    Classified =>
        \A m \in DetectedSet :
            (UnderException(m) /\ UnderProtected(m)) =>
                /\ m \notin UnsafeDirSet
                /\ m \in SafeSet <=> ~ BacksTimerScript(m)

\* a unit under the exception prefix is reloadable while some other unit's
\* timer script exists
C4_Witness ==
    /\ Classified
    /\ \E m \in SafeSet : UnderException(m) /\ UnderProtected(m)
    /\ \E s \in scripts : s.interval > -1 /\ s.typeclass_path # <<>>

\* ------------------------------------------------------------------------
\* C5: a modified unit that backs a script with interval > -1 is classified
\* unsafe-mod-modified even when it lies under an exception prefix: the
\* timer rule overrides the exception allowance of rule 2.
\* ------------------------------------------------------------------------
C5_TimerOverridesException ==
    Classified =>
        \A m \in DetectedSet :
            (BacksTimerScript(m) /\ (UnderException(m) \/ ~ UnderProtected(m))) =>
                /\ m \in UnsafeModSet
                /\ m \notin SafeSet

\* a unit under the exception prefix held back by a timer script
C5_Witness ==
    /\ Classified
    /\ \E m \in UnsafeModSet : UnderException(m) /\ BacksTimerScript(m)

\* ------------------------------------------------------------------------
\* Vocabulary of the claims about the entry points
\* ------------------------------------------------------------------------
\* the positions of the calls of one kind in the trace of the current call
Calls(name) ==
    {i \in DOMAIN trace : trace[i].call = name}

\* the calls of one kind that did not raise
Done(name) ==
    {i \in Calls(name) : trace[i].ok}

\* a reload_modules cycle has ended, by a return or by an exception
CycleEnded ==
    entry = "reload_modules" /\ pc = "done"

\* the cascade steps of reload_modules: (a), (b), (c), (d)
CascadeSteps ==
    <<"appcache", "typeclass", "exit", "channel">>

\* every call of kind x in the trace comes before every call of kind y
Before(x, y) ==
    \A i \in Calls(x) : \A j \in Calls(y) : i < j

\* ------------------------------------------------------------------------
\* C2: the loader is called only with exactly the safe-modified set, never
\* with an identifier under a protected prefix without an exception prefix
\* nor with a prefix of the typeclass path of a script with interval > -1;
\* when the safe-modified set is empty the loader is not called and the
\* cycle still returns normally.
\* ------------------------------------------------------------------------
C2_LoaderOnlySafe ==
    CycleEnded =>
        /\ \A i \in Calls("reimport") :
              /\ trace[i].args.ids = safe_modified
              /\ \A m \in ToSet(trace[i].args.ids) :
                    /\ ~ (UnderProtected(m) /\ ~ UnderException(m))
                    /\ ~ BacksTimerScript(m)
        /\ (Calls("modified") # {} /\ safe_modified = <<>>) =>
              /\ Calls("reimport") = {}
              /\ outcome = "returned"

\* the part of C2 about the arguments of the loader alone
LoaderArguments ==
    /\ \A i \in Calls("reimport") :
          /\ trace[i].args.ids = safe_modified
          /\ safe_modified # <<>>
          /\ \A m \in ToSet(trace[i].args.ids) :
                /\ ~ (UnderProtected(m) /\ ~ UnderException(m))
                /\ ~ BacksTimerScript(m)
    /\ Cardinality(Calls("reimport")) <= 1

\* ------------------------------------------------------------------------
\* C6: no failure of an internal step propagates as an exception out of
\* reload_modules, reload_scripts or reload_commands: each entry point
\* always returns normally.
\* ------------------------------------------------------------------------
C6_NeverRaises ==
    outcome # "raised"

\* ------------------------------------------------------------------------
\* C7: when the reload of one unit of the safe-modified set fails, the
\* failure is logged, the remaining units are still attempted, the failed
\* unit keeps its old code, and the cycle goes on to run the cache cascade
\* and to start the resync sweep.
\* ------------------------------------------------------------------------
C7_FailedUnitIsolated ==
    CycleEnded =>
        \A i \in Calls("reimport") :
            trace[i].args.failed # {} =>
                /\ trace[i].args.failed \subseteq stale
                /\ (ToSet(trace[i].args.ids) \ trace[i].args.failed) \cap stale = {}
                /\ \A k \in DOMAIN CascadeSteps : Done(CascadeSteps[k]) # {}
                /\ Calls("run_async") # {}

\* the part of C7 that reimport.reimport decides: the units that failed are
\* still stale, the other units of the call are not
ReimportIsolation ==
    entry = "reload_modules" =>
        \A i \in Calls("reimport") :
            /\ trace[i].args.failed \subseteq stale
            /\ (ToSet(trace[i].args.ids) \ trace[i].args.failed) \cap stale = {}

C9_CascadeEveryCycle ==
    CycleEnded =>
        \A k \in DOMAIN CascadeSteps : Done(CascadeSteps[k]) # {}

\* the cycles that return have run the four steps and handed over the sweep
ReturnedCycleComplete ==
    (CycleEnded /\ outcome = "returned") =>
        /\ \A k \in DOMAIN CascadeSteps : Done(CascadeSteps[k]) # {}
        /\ Calls("run_async") # {}

\* ------------------------------------------------------------------------
\* C10: if one cascade step fails, every other cascade step of the cycle
\* is still executed, the cache of the failed step is left in its prior
\* state, and the resync sweep is still started.
\* ------------------------------------------------------------------------
C10_CascadeStepIsolated ==
    CycleEnded =>
        \A k \in DOMAIN CascadeSteps :
            \A i \in Calls(CascadeSteps[k]) :
                ~ trace[i].ok =>
                    /\ cache[CascadeSteps[k]] = trace[i].args
                    /\ \A j \in DOMAIN CascadeSteps \ {k} :
                          Done(CascadeSteps[j]) # {}
                    /\ Calls("run_async") # {}

\* ------------------------------------------------------------------------
\* Vocabulary of the claims on the reset loop
\* ------------------------------------------------------------------------
\* the entity categories: world-objects, scripts, players, help entries,
\* messages, channels
Categories ==
    {"ObjectDB", "ScriptDB", "PlayerDB", "HelpEntry", "Msg", "Channel"}

\* the categories whose instances carry a command-set cache
BehaviorBearing ==
    {"ObjectDB"}

\* the live instances of one category
Live(category) ==
    IF category = "ScriptDB"
    THEN {Instance(category, s.key) : s \in scripts}
    ELSE {Instance(category, e.key) :
              e \in {x \in entities : x.table = category}}

\* the reset loop started last has rebuilt this cache of this instance
Rebuilt(row, handler) ==
    [row |-> row, handler |-> handler] \in resets

\* reload_modules returns to its caller in this step
RM_Returns ==
    /\ entry = "reload_modules"
    /\ pc # "done"
    /\ pc' = "done"
    /\ outcome' = "returned"

\* ------------------------------------------------------------------------
\* C11: reload_modules returns to its caller without waiting for the
\* resync sweep: in the step in which it returns the sweep has been handed
\* to the async runner and has not started, so that no rebuild has been
\* made; the sweep starts, runs and calls its callback afterwards.
\* ------------------------------------------------------------------------
C11_ReturnsBeforeSweep ==
    [][RM_Returns =>
          /\ sweep' = "scheduled"
          /\ resets' = {}
          /\ trace'[Len(trace')].call = "run_async"]_vars

\* the request is complete while the sweep is in progress
C11_Witness ==
    /\ CycleEnded
    /\ outcome = "returned"
    /\ sweep = "running"
    /\ resets # {}

\* ------------------------------------------------------------------------
\* C12: for each started sweep exactly one of the two callbacks is
\* eventually invoked: the success callback if and only if the whole sweep
\* completed without an unhandled failure, the error callback if any
\* rebuild failed; a sweep failure is never raised to the caller of
\* reload_modules.
\* ------------------------------------------------------------------------
C12_CallbackEventually ==
    (sweep = "scheduled") ~> (sweep \in {"finished", "errored"})

\* the callbacks follow the end of the loop: at_return only a loop that ran
\* through every table, at_err only a loop that raised, one callback for a
\* loop, and the caller's flow of control untouched by the failure
CallbackSafety ==
    [][/\ (sweep' = "succeeded" /\ sweep # "succeeded") =>
              (sweep = "running" /\ loop'.at > Len(Tables))
       /\ (sweep' = "failed" /\ sweep # "failed") =>
              (sweep = "running" /\ UNCHANGED <<pc, outcome, trace>>)
       /\ (sweep' = "finished" /\ sweep # "finished") =>
              (sweep = "succeeded" /\ emitted'.message = msg_finished)
       /\ (sweep' = "errored" /\ sweep # "errored") =>
              (sweep = "failed" /\ emitted'.message = msg_error("error")
                                /\ UNCHANGED <<pc, outcome, trace>>)
       /\ sweep \in {"finished", "errored"} =>
              sweep' \in {sweep, "scheduled"}]_vars

\* C12 (amended): for each started sweep in which no rebuild hangs, exactly
\* one of the two callbacks is eventually invoked, the success callback if
\* and only if the loop ran through every table without a failure, the
\* error callback if a rebuild raised; a sweep in which a rebuild never
\* returns calls neither callback; a sweep failure is never raised to the
\* caller of reload_modules.
C12_CallbackUnlessHung ==
    /\ (sweep = "scheduled") ~> (sweep \in {"finished", "errored", "hung"})
    /\ CallbackSafety

\* a loop has raised and its error callback has been called
C12_Witness ==
    /\ sweep = "errored"
    /\ emitted.message = msg_error("error")

\* ------------------------------------------------------------------------
\* C13: when the success callback of the sweep fires, every live instance
\* of every entity category has had its lock cache rebuilt during that
\* sweep, and every instance of every behavior-bearing category has also
\* had its command-set cache rebuilt.
\* ------------------------------------------------------------------------
C13_SuccessMeansAllRebuilt ==
    sweep = "finished" =>
        \A category \in Categories : \A row \in Live(category) :
            /\ Rebuilt(row, "locks")
            /\ category \in BehaviorBearing => Rebuilt(row, "cmdset")

\* the success callback has fired and the script table holds a row
C13_Witness ==
    /\ sweep = "finished"
    /\ emitted.message = msg_finished
    /\ Live("ScriptDB") # {}
    /\ Live("ObjectDB") # {}

\* ------------------------------------------------------------------------
\* Vocabulary of the claims on cemit_info
\* ------------------------------------------------------------------------
\* a call of cemit_info has been made and is the one recorded
HasEmitted ==
    emitted.infochan # "none"

\* the marker of the lines logged when no channel is resolved
NoChannelMarker ==
    "[NO MUDINFO CHANNEL]: "

\* the first n lines of the log are the lines of the message, unmarked
LogsMessage ==
    /\ Len(logged) >= Len(emitted.message)
    /\ \A i \in DOMAIN emitted.message :
          logged[i] = [tag |-> "", line |-> emitted.message[i]]

\* ------------------------------------------------------------------------
\* C14: cemit_info always writes the message to the log, and a failure of
\* the notification channel, in resolving it or in sending to it, never
\* propagates to the caller of cemit_info.
\* ------------------------------------------------------------------------
C14_ChannelFailureContained ==
    /\ HasEmitted => LogsMessage
    /\ \A i \in Calls("cemit_info") : trace[i].ok

\* what holds of the code: the message is always logged, and the failure to
\* resolve the channel is contained
ReportLoggedLookupContained ==
    /\ HasEmitted => LogsMessage
    /\ \A i \in Calls("cemit_info") :
          (~ trace[i].ok) => (i = Len(trace) /\ emitted.infochan = "sendfails")
    /\ (/\ trace # <<>>
        /\ trace[Len(trace)].call = "cemit_info"
        /\ emitted.infochan = "unresolved") => trace[Len(trace)].ok

CycleClassified ==
    entry = "reload_modules" /\ Calls("modified") # {}

\* one of the rejected sets holds a module
Rejected ==
    unsafe_dir_modified # <<>> \/ unsafe_mod_modified # <<>>

\* cemit_info has been called with this message
Emits(message) ==
    \E i \in Calls("cemit_info") : trace[i].args = message

\* a message that has a line listing these identifiers
Lists(message, ids) ==
    \E k \in DOMAIN message : message[k].arg = ids

\* a message that has the heading of the warning
IsWarning(message) ==
    \E k \in DOMAIN message : message[k] = frag_warning[2]

\* the warning of the cycle: emitted exactly when a rejected set is not
\* empty, and listing every rejected set that is not empty
WarningAsClaimed ==
    /\ Rejected =>
          \E i \in Calls("cemit_info") :
              /\ IsWarning(trace[i].args)
              /\ unsafe_dir_modified # <<>> =>
                    Lists(trace[i].args, unsafe_dir_modified)
              /\ unsafe_mod_modified # <<>> =>
                    Lists(trace[i].args, unsafe_mod_modified)
    /\ ~ Rejected =>
          \A i \in Calls("cemit_info") : ~ IsWarning(trace[i].args)

\* no rejected identifier is given to the loader
RejectedNotReloaded ==
    \A i \in Calls("reimport") :
        ToSet(trace[i].args.ids) \cap (UnsafeDirSet \cup UnsafeModSet) = {}

\* ------------------------------------------------------------------------
\* C16: when a rejected set is not empty the cycle emits a warning that
\* lists the identifiers of each rejected set that is not empty, no
\* rejected identifier is reloaded, and the cycle still reloads the whole
\* safe-modified set and goes on to the cascade and the sweep; when both
\* rejected sets are empty no warning is emitted.
\* ------------------------------------------------------------------------
C16_WarnAndContinue ==
    (CycleEnded /\ CycleClassified) =>
        /\ WarningAsClaimed
        /\ RejectedNotReloaded
        /\ Rejected =>
              /\ safe_modified # <<>> =>
                    \E i \in Calls("reimport") :
                        trace[i].args.ids = safe_modified
              /\ \A k \in DOMAIN CascadeSteps : Done(CascadeSteps[k]) # {}
              /\ Calls("run_async") # {}

\* what holds of the code: the warning and the loader's arguments are as
\* claimed in every cycle, and a cycle that returns has reloaded the
\* safe-modified set, run the cascade and started the sweep
WarningThenReturnedCycle ==
    CycleClassified =>
        /\ WarningAsClaimed
        /\ RejectedNotReloaded
        /\ (pc = "done" /\ outcome = "returned") =>
              /\ safe_modified # <<>> =>
                    \E i \in Calls("reimport") :
                        trace[i].args.ids = safe_modified
              /\ \A k \in DOMAIN CascadeSteps : Done(CascadeSteps[k]) # {}
              /\ Calls("run_async") # {}

\* ------------------------------------------------------------------------
\* Vocabulary of the frame claims
\* ------------------------------------------------------------------------
\* the step is the call of reload_commands
RC_Step ==
    entry = "none" /\ entry' = "reload_commands"

\* the step is made by reload_scripts
RS_Step ==
    entry' = "reload_scripts"

\* the step is made by reload_modules or while its record is kept
RM_Step ==
    entry' = "reload_modules"

\* the step is made by the reset loop or by one of its callbacks
Sweep_Step ==
    reset_loop' # reset_loop /\ entry' = entry

\* the calls the entry point has made are of these kinds only
OnlyCalls(kinds) ==
    \A i \in DOMAIN trace' : trace'[i].call \in kinds

\* the validator is run with the arguments of the call, and the report that
\* follows it gives the counts it returned
ValidatorAsCalled ==
    \A i \in DOMAIN trace' :
        trace'[i].call = "validate" =>
            /\ trace'[i].args.selector = call_args'.selector
            /\ trace'[i].args.init_mode = call_args'.init_mode
            /\ i < Len(trace')
            /\ trace'[i + 1].call = "cemit_info"
            /\ trace'[i + 1].args = msg_validated(trace'[i].args.nr_started,
                                                  trace'[i].args.nr_stopped)

\* ------------------------------------------------------------------------
\* C17: reload_commands clears only the command-set cache; reload_scripts
\* runs only the validator, with the selector and the init_mode it was
\* given, and reports the counts the validator returns; reload_modules
\* neither clears the command-set cache nor starts or stops a script.
\* ------------------------------------------------------------------------
C17_EntryPointFrames ==
    [][/\ RC_Step =>
              /\ cache' = [cache EXCEPT !["cmdset"] = "cleared"]
              /\ UNCHANGED <<db, stale, reset_loop>>
              /\ OnlyCalls({"cmdset", "cemit_info"})
       /\ RS_Step =>
              /\ UNCHANGED <<entities, stale, cache, reset_loop>>
              /\ OnlyCalls({"validate", "cemit_info"})
              /\ Cardinality({i \in DOMAIN trace' :
                                 trace'[i].call = "validate"}) <= 1
              /\ ValidatorAsCalled
              /\ scripts' # scripts => (pc = "L132" /\ pc' = "done")
       /\ RM_Step =>
              /\ cache'["cmdset"] = cache["cmdset"]
              /\ UNCHANGED <<scripts, stopped>>
              /\ OnlyCalls({"cemit_info", "modified", "reimport", "run_async",
                            "appcache", "typeclass", "exit", "channel"})]_vars

\* reload_scripts has run the validator in init_mode and reported its counts
C17_Witness ==
    /\ entry = "reload_scripts"
    /\ pc = "done"
    /\ outcome = "returned"
    /\ call_args.init_mode
    /\ call_args.selector = "obj:o1"
    /\ Calls("validate") # {}

\* ------------------------------------------------------------------------
\* C18: across the cycles of reload_modules and the sweeps the durable
\* fields of every persisted entity (identifier, typeclass path, script
\* interval and persistence flag) are unchanged: only lock and command-set
\* caches are rewritten, and the set of entities is neither extended nor
\* reduced.
\* ------------------------------------------------------------------------
C18_DurableFieldsKept ==
    [][(RM_Step \/ Sweep_Step) =>
          /\ {e.key : e \in entities'} = {e.key : e \in entities}
          /\ {s.key : s \in scripts'} = {s.key : s \in scripts}
          /\ \A e \in entities : \A f \in entities' :
                f.key = e.key =>
                    (f.table = e.table /\ f.typeclass_path = e.typeclass_path)
          /\ \A s \in scripts : \A t \in scripts' :
                t.key = s.key =>
                    /\ t.typeclass_path = s.typeclass_path
                    /\ t.interval = s.interval
                    /\ t.persistent = s.persistent
                    /\ t.obj = s.obj]_vars

\* a sweep that followed a cycle has rebuilt the caches of a script and of
\* a world-object
C18_Witness ==
    /\ sweep \in {"succeeded", "finished"}
    /\ \E r \in resets : r.row.table = "ScriptDB"
    /\ \E r \in resets : r.row.table = "ObjectDB" /\ r.handler = "cmdset"

\* ------------------------------------------------------------------------
\* Vocabulary of the claim on stopped scripts
\* ------------------------------------------------------------------------
\* the loader has been given m in this cycle
Reloaded(m) ==
    \E i \in Calls("reimport") : InList(m, trace[i].args.ids)

\* m passes the path rules 1 and 2
PathAllows(m) ==
    UnderProtected(m) => UnderException(m)

\* a script with a timer that m backed has been stopped
BackedStoppedTimer(m) ==
    \E s \in stopped : s.interval > -1 /\ startswith(s.typeclass_path, m)

\* ------------------------------------------------------------------------
\* C19: a unit is held back as unsafe-mod-modified only while a script
\* with a timer that it backs is running: once every such script has been
\* stopped, the next cycle in which the unit is modified classifies it
\* safe-modified and reloads it.
\* ------------------------------------------------------------------------
C19_StoppedTimerReleasesUnit ==
    (CycleEnded /\ CycleClassified) =>
        \A m \in DetectedSet :
            /\ m \in UnsafeModSet => BacksTimerScript(m)
            /\ (PathAllows(m) /\ ~ BacksTimerScript(m)) =>
                  (m \in SafeSet /\ Reloaded(m))

\* what holds of the code: the classification follows the script table of
\* the cycle, and a cycle that reaches line 94 gives the unit to the loader
ReleasedUnitClassifiedSafe ==
    CycleClassified =>
        \A m \in DetectedSet :
            /\ m \in UnsafeModSet => BacksTimerScript(m)
            /\ (PathAllows(m) /\ ~ BacksTimerScript(m)) =>
                  /\ m \in SafeSet
                  /\ pc \in {"L100", "L101", "L102", "L106"} => Reloaded(m)
                  /\ (pc = "done" /\ outcome = "returned") => Reloaded(m)

\* a unit whose timer script was stopped is reloaded by the next cycle
ReleasedUnitReloaded ==
    /\ CycleEnded
    /\ \E m \in DetectedSet :
          BackedStoppedTimer(m) /\ m \in SafeSet /\ Reloaded(m)

\* ------------------------------------------------------------------------
\* Vocabulary of the claim on a rebuild that hangs
\* ------------------------------------------------------------------------
\* the reset loop is held by a reset() call that does not return
Hung ==
    sweep = "hung"

\* the row whose reset() call hangs
HungRows ==
    IF Hung /\ loop.todo # <<>> THEN {Head(loop.todo)} ELSE {}

\* every cache of the row has been rebuilt by the reset loop
AllRebuilt(row) ==
    /\ Rebuilt(row, "locks")
    /\ row.table \in BehaviorBearing => Rebuilt(row, "cmdset")

\* ------------------------------------------------------------------------
\* C20: a rebuild that hangs on one instance does not block the rebuilds
\* of the other instances: every other instance still has its caches
\* rebuilt eventually.
\* ------------------------------------------------------------------------
C20_HangDoesNotBlock ==
    Hung ~> (\A category \in Categories :
                \A row \in Live(category) \ HungRows : AllRebuilt(row))

\* what holds of the code: the loop is one sequential function, so that no
\* reset() call is made after the one that hangs
HungLoopMakesNoReset ==
    [][Hung => (Hung' /\ UNCHANGED <<loop, resets>>)]_vars

====
